---- MODULE Spec2Model ----
(***************************************************************************)
(* CHIP-8 virtual machine of src/chip8.rs (struct Chip8 and its methods)   *)
(* driven by the host loop of src/main.rs.                                 *)
(*                                                                         *)
(* The machine is the record of the fields of struct Chip8.  Every method  *)
(* is an operator from a machine record to a machine record; a Rust panic  *)
(* is the field `panic` of the result, set at the point where the method   *)
(* stops, with every assignment made before that point kept.               *)
(***************************************************************************)
EXTENDS Integers, Sequences, FiniteSets, TLC

VARIABLES
    ram,              \* [u8; 4096]
    registers,        \* [u8; 16]
    stack,            \* [u16; 16]
    video,            \* [bool; 64 * 32]
    keypad,           \* [u8; 16]
    sp,               \* u8
    pc,               \* u16
    i,                \* u16
    st,               \* u8
    dt,               \* u8
    opcode,           \* u16
    panic,            \* "none", or the panic that ended the process
    host,             \* position of main(): "new" before load_rom, "loaded" after
    overflow_checks,  \* build profile: TRUE = debug (overflow panics), FALSE = release (wraps)
    cycles,           \* number of calls of cycle() so far
    ticks,            \* number of calls of tick_timers() so far
    callers,          \* history: <<fetch address, sp before>> of every CALL not yet returned
    rom,              \* history: the file contents load_rom read (<< >> before it ran)
    dt_loaded,        \* history: the value v last stored in dt and the ticks k since then
    written,          \* history: the addresses op_fx33 and op_fx55 were run on since load_rom
    ram_loaded        \* history: the memory as load_rom left it (as new left it, before)

vars == <<ram, registers, stack, video, keypad, sp, pc, i, st, dt, opcode,
          panic, host, overflow_checks, cycles, ticks, callers, rom, dt_loaded, written,
          ram_loaded>>

-----------------------------------------------------------------------------
(* Program constants *)

DISP_WIDTH == 64
DISP_HEIGHT == 32
START_ADDR == \h200
RAM_SIZE == 4096
STACK_SIZE == 16

FONTS ==
    << \hF0, \h90, \h90, \h90, \hF0,
       \h20, \h60, \h20, \h20, \h70,
       \hF0, \h10, \hF0, \h80, \hF0,
       \hF0, \h10, \hF0, \h10, \hF0,
       \h90, \h90, \hF0, \h10, \h10,
       \hF0, \h80, \hF0, \h10, \hF0,
       \hF0, \h80, \hF0, \h90, \hF0,
       \hF0, \h10, \h20, \h40, \h40,
       \hF0, \h90, \hF0, \h90, \hF0,
       \hF0, \h90, \hF0, \h10, \hF0,
       \hF0, \h90, \hF0, \h90, \h90,
       \hE0, \h90, \hE0, \h90, \hE0,
       \hF0, \h80, \h80, \h80, \hF0,
       \hE0, \h90, \h90, \h90, \hE0,
       \hF0, \h80, \hF0, \h80, \hF0,
       \hF0, \h80, \hF0, \h80, \h80 >>

-----------------------------------------------------------------------------
(* Bounds of the model *)

MaxCycles == 70
MaxTicks == 2

-----------------------------------------------------------------------------
(* Integer operations of the source, on naturals *)

and_bits[a \in Nat, b \in Nat] ==
    IF a = 0 \/ b = 0 THEN 0
    ELSE (a % 2) * (b % 2) + 2 * and_bits[a \div 2, b \div 2]

BitAnd(a, b) == and_bits[a, b]

or_bits[a \in Nat, b \in Nat] ==
    IF a = 0 THEN b
    ELSE IF b = 0 THEN a
    ELSE (IF a % 2 = 1 \/ b % 2 = 1 THEN 1 ELSE 0) + 2 * or_bits[a \div 2, b \div 2]

BitOr(a, b) == or_bits[a, b]

xor_bits[a \in Nat, b \in Nat] ==
    IF a = 0 THEN b
    ELSE IF b = 0 THEN a
    ELSE ((a + b) % 2) + 2 * xor_bits[a \div 2, b \div 2]

BitXor(a, b) == xor_bits[a, b]

Shr(a, n) == a \div (2 ^ n)

Shl(a, n, width) == (a * (2 ^ n)) % (2 ^ width)

\* u8::overflowing_add / u8::overflowing_sub: <<wrapped result, overflow flag>>
overflowing_add(a, b) == << (a + b) % 256, a + b > 255 >>

overflowing_sub(a, b) == << (a - b + 256) % 256, a < b >>

wrapping_add8(a, b) == (a + b) % 256

wrapping_add16(a, b) == (a + b) % 65536

-----------------------------------------------------------------------------
(* The machine as a record of the fields of struct Chip8 *)

Chip ==
    [ ram |-> ram, registers |-> registers, stack |-> stack, video |-> video,
      keypad |-> keypad, sp |-> sp, pc |-> pc, i |-> i, st |-> st, dt |-> dt,
      opcode |-> opcode, panic |-> panic ]

Panic(c, what) == [c EXCEPT !.panic = what]

\* Chip8::new
new ==
    [ ram |-> [a \in 0..(RAM_SIZE - 1) |-> IF a < Len(FONTS) THEN FONTS[a + 1] ELSE 0],
      registers |-> [r \in 0..15 |-> 0],
      stack |-> [s \in 0..(STACK_SIZE - 1) |-> 0],
      keypad |-> [k \in 0..15 |-> 0],
      video |-> [p \in 0..(DISP_WIDTH * DISP_HEIGHT - 1) |-> FALSE],
      sp |-> 0, pc |-> \h200, i |-> 0, st |-> 0, dt |-> 0, opcode |-> 0,
      panic |-> "none" ]

\* Variant of load_rom: bytes that do not fit are dropped
load_rom_truncating(c, contents) ==
    LET room == RAM_SIZE - START_ADDR
        stored == IF Len(contents) < room THEN Len(contents) ELSE room
    IN  [c EXCEPT !.ram = [a \in 0..(RAM_SIZE - 1) |->
            IF a >= START_ADDR /\ a - START_ADDR < stored
            THEN contents[a - START_ADDR + 1] ELSE c.ram[a]]]

\* Chip8::load_rom, after fs::read returned `contents`: the loop stores byte
\* after byte from START_ADDR and panics at the first idx above 0xFFF.
load_rom(c, contents) ==
    LET room == RAM_SIZE - START_ADDR
        stored == IF Len(contents) < room THEN Len(contents) ELSE room
        c1 == [c EXCEPT !.ram = [a \in 0..(RAM_SIZE - 1) |->
                  IF a >= START_ADDR /\ a - START_ADDR < stored
                  THEN contents[a - START_ADDR + 1] ELSE c.ram[a]]]
    IN  IF Len(contents) > room THEN Panic(c1, "NotSupportedAddress") ELSE c1

\* Variant of tick_timers: the sound timer runs only while the delay timer does
tick_timers_coupled(c) ==
    IF c.dt > 0
    THEN [c EXCEPT !.dt = c.dt - 1, !.st = IF c.st > 0 THEN c.st - 1 ELSE 0]
    ELSE c

\* Chip8::tick_timers
tick_timers(c) ==
    LET c1 == IF c.dt > 0 THEN [c EXCEPT !.dt = c.dt - 1] ELSE c
    IN  IF c1.st > 0 THEN [c1 EXCEPT !.st = c1.st - 1] ELSE c1

\* Chip8::set_key_value
set_key_value(c, key, value) ==
    IF key > 15 THEN Panic(c, "IndexOutOfBounds")
    ELSE [c EXCEPT !.keypad[key] = value]

-----------------------------------------------------------------------------
(* Fields of the instruction word *)

X(c) == Shr(BitAnd(c.opcode, \h0F00), 8)
Y(c) == Shr(BitAnd(c.opcode, \h00F0), 4)
N(c) == BitAnd(c.opcode, \h000F)
NN(c) == BitAnd(c.opcode, \h00FF)
NNN(c) == BitAnd(c.opcode, \h0FFF)

-----------------------------------------------------------------------------
(* The 35 instruction handlers *)

\* Variant of op_00e0: the first row is cleared
op_00e0_first_row(c) ==
    [c EXCEPT !.video = [p \in 0..(DISP_WIDTH * DISP_HEIGHT - 1) |-> p >= DISP_WIDTH /\ c.video[p]]]

op_00e0(c) == [c EXCEPT !.video = [p \in 0..(DISP_WIDTH * DISP_HEIGHT - 1) |-> FALSE]]

\* op_00ee reading the slot at sp before it decrements sp
op_00ee_read_before_decrement(c) ==
    IF c.sp = 0 THEN [c EXCEPT !.pc = c.stack[0]]
    ELSE [c EXCEPT !.pc = c.stack[c.sp % STACK_SIZE], !.sp = c.sp - 1]

\* self.sp -= 1 on sp = 0 panics in a build with overflow checks and wraps
\* to 255 otherwise, where stack[255] is out of bounds.
op_00ee(c) ==
    IF c.sp = 0
    THEN IF overflow_checks THEN Panic(c, "SubtractOverflow")
         ELSE Panic([c EXCEPT !.sp = 255], "IndexOutOfBounds")
    ELSE IF c.sp - 1 > STACK_SIZE - 1
         THEN Panic([c EXCEPT !.sp = c.sp - 1], "IndexOutOfBounds")
         ELSE [c EXCEPT !.sp = c.sp - 1, !.pc = c.stack[c.sp - 1]]

op_1nnn(c) == [c EXCEPT !.pc = NNN(c)]

\* op_2nnn on a stack used as a ring: the slot is sp mod 16 and no CALL fails
op_2nnn_ring(c) ==
    [c EXCEPT !.stack[c.sp % STACK_SIZE] = c.pc, !.sp = c.sp + 1, !.pc = NNN(c)]

op_2nnn(c) ==
    IF c.sp > STACK_SIZE - 1 THEN Panic(c, "IndexOutOfBounds")
    ELSE [c EXCEPT !.stack[c.sp] = c.pc, !.sp = c.sp + 1, !.pc = NNN(c)]

op_3xnn(c) == IF c.registers[X(c)] = NN(c) THEN [c EXCEPT !.pc = c.pc + 2] ELSE c

op_4xnn(c) == IF c.registers[X(c)] # NN(c) THEN [c EXCEPT !.pc = c.pc + 2] ELSE c

op_5xy0(c) ==
    IF c.registers[X(c)] = c.registers[Y(c)] THEN [c EXCEPT !.pc = c.pc + 2] ELSE c

op_6xnn(c) == [c EXCEPT !.registers[X(c)] = NN(c)]

op_7xnn(c) == [c EXCEPT !.registers[X(c)] = wrapping_add8(c.registers[X(c)], NN(c))]

op_8xy0(c) == [c EXCEPT !.registers[X(c)] = c.registers[Y(c)]]

op_8xy1(c) == [c EXCEPT !.registers[X(c)] = BitOr(c.registers[X(c)], c.registers[Y(c)])]

op_8xy2(c) == [c EXCEPT !.registers[X(c)] = BitAnd(c.registers[X(c)], c.registers[Y(c)])]

op_8xy3(c) == [c EXCEPT !.registers[X(c)] = BitXor(c.registers[X(c)], c.registers[Y(c)])]

\* The flag is stored first and the result second: with x = F the result
\* overwrites the flag.
op_8xy4(c) ==
    LET r == overflowing_add(c.registers[X(c)], c.registers[Y(c)])
        c1 == [c EXCEPT !.registers[15] = IF r[2] THEN 1 ELSE 0]
    IN  [c1 EXCEPT !.registers[X(c)] = r[1]]

\* op_8xy5 with the polarity of the flag inverted: VF = 1 on borrow
op_8xy5_flag_on_borrow(c) ==
    LET r == overflowing_sub(c.registers[X(c)], c.registers[Y(c)])
        c1 == [c EXCEPT !.registers[15] = IF r[2] THEN 1 ELSE 0]
    IN  [c1 EXCEPT !.registers[X(c)] = r[1]]

op_8xy5(c) ==
    LET r == overflowing_sub(c.registers[X(c)], c.registers[Y(c)])
        c1 == [c EXCEPT !.registers[15] = IF r[2] THEN 0 ELSE 1]
    IN  [c1 EXCEPT !.registers[X(c)] = r[1]]

op_8xy6(c) ==
    LET c1 == [c EXCEPT !.registers[15] = BitAnd(c.registers[X(c)], 1)]
    IN  [c1 EXCEPT !.registers[X(c)] = Shr(c1.registers[X(c)], 1)]

op_8xy7(c) ==
    LET r == overflowing_sub(c.registers[Y(c)], c.registers[X(c)])
        c1 == [c EXCEPT !.registers[15] = IF r[2] THEN 0 ELSE 1]
    IN  [c1 EXCEPT !.registers[X(c)] = r[1]]

op_8xye(c) ==
    LET c1 == [c EXCEPT !.registers[15] = BitAnd(c.registers[X(c)], Shl(1, 7, 8))]
    IN  [c1 EXCEPT !.registers[X(c)] = Shl(c1.registers[X(c)], 1, 8)]

op_9xy0(c) ==
    IF c.registers[X(c)] # c.registers[Y(c)] THEN [c EXCEPT !.pc = c.pc + 2] ELSE c

op_annn(c) == [c EXCEPT !.i = NNN(c)]

\* (registers[0] as u16) + nnn is at most 255 + 4095: no u16 overflow
op_bnnn(c) == [c EXCEPT !.pc = c.registers[0] + NNN(c)]

op_cxnn(c, rng) == [c EXCEPT !.registers[X(c)] = BitAnd(NN(c), rng)]

\* Inner loop of op_dxyn: the 8 bits of one sprite row, d = <<video, collision>>
RECURSIVE draw_cols(_, _, _, _, _)
draw_cols(d, sprite_byte, curr_y, x_coord, col) ==
    IF col = 8 THEN d
    ELSE LET curr_x == (x_coord + col) % DISP_WIDTH
             idx == curr_y * DISP_WIDTH + curr_x
             sprite_bit == BitAnd(sprite_byte, Shl(1, 7 - col, 8))
             d1 == IF sprite_bit > 0
                   THEN << [d[1] EXCEPT ![idx] = ~@], d[2] \/ d[1][idx] >>
                   ELSE d
         IN  draw_cols(d1, sprite_byte, curr_y, x_coord, col + 1)

\* Outer loop of op_dxyn: rows drawn before a failing read stay drawn, and
\* VF is written only after the last row.
RECURSIVE draw_rows(_, _, _, _, _)
draw_rows(c, collision, x_coord, y_coord, row) ==
    IF row = N(c)
    THEN [c EXCEPT !.registers[15] = IF collision THEN 1 ELSE 0]
    ELSE IF c.i + row > 65535 /\ overflow_checks THEN Panic(c, "AddOverflow")
    ELSE LET ram_idx == wrapping_add16(c.i, row)
         IN  IF ram_idx > RAM_SIZE - 1 THEN Panic(c, "IndexOutOfBounds")
             ELSE LET sprite_byte == c.ram[ram_idx]
                      curr_y == (y_coord + row) % DISP_HEIGHT
                      d == draw_cols(<<c.video, collision>>, sprite_byte, curr_y, x_coord, 0)
                  IN  draw_rows([c EXCEPT !.video = d[1]], d[2], x_coord, y_coord, row + 1)

\* Variant of op_dxyn: the coordinate registers taken the other way round
op_dxyn_transposed(c) ==
    LET x_coord == c.registers[Y(c)] % DISP_WIDTH
        y_coord == c.registers[X(c)] % DISP_WIDTH
    IN  draw_rows(c, FALSE, x_coord, y_coord, 0)

\* Variant of op_dxyn: the collision flag starts set
op_dxyn_collision_set(c) ==
    LET x_coord == c.registers[X(c)] % DISP_WIDTH
        y_coord == c.registers[Y(c)] % DISP_WIDTH
    IN  draw_rows(c, TRUE, x_coord, y_coord, 0)

op_dxyn(c) ==
    LET x_coord == c.registers[X(c)] % DISP_WIDTH
        y_coord == c.registers[Y(c)] % DISP_WIDTH
    IN  draw_rows(c, FALSE, x_coord, y_coord, 0)

op_ex9e(c) ==
    IF c.registers[X(c)] > 15 THEN Panic(c, "IndexOutOfBounds")
    ELSE IF c.keypad[c.registers[X(c)]] > 0 THEN [c EXCEPT !.pc = c.pc + 2] ELSE c

op_exa1(c) ==
    IF c.registers[X(c)] > 15 THEN Panic(c, "IndexOutOfBounds")
    ELSE IF c.keypad[c.registers[X(c)]] = 0 THEN [c EXCEPT !.pc = c.pc + 2] ELSE c

op_fx07(c) == [c EXCEPT !.registers[X(c)] = c.dt]

\* op_fx0a without the rewind of the program counter
op_fx0a_no_rewind(c) ==
    IF c.keypad[X(c)] > 0 THEN [c EXCEPT !.registers[X(c)] = X(c)] ELSE c

\* Variant of op_fx0a: the key next to x is the one waited for
op_fx0a_next_key(c) ==
    IF c.keypad[(X(c) + 1) % 16] > 0 THEN [c EXCEPT !.registers[X(c)] = X(c)]
    ELSE [c EXCEPT !.pc = c.pc - 2]

op_fx0a(c) ==
    IF c.keypad[X(c)] > 0 THEN [c EXCEPT !.registers[X(c)] = X(c)]
    ELSE [c EXCEPT !.pc = c.pc - 2]

op_fx15(c) == [c EXCEPT !.dt = c.registers[X(c)]]

op_fx18(c) == [c EXCEPT !.st = c.registers[X(c)]]

op_fx1e(c) == [c EXCEPT !.i = wrapping_add16(c.i, c.registers[X(c)])]

op_fx29(c) == [c EXCEPT !.i = c.registers[X(c)] * 5]

\* Variant of op_fx33: the tens digit taken from the whole value
op_fx33_tens_unreduced(c) ==
    LET v_x == c.registers[X(c)]
        ones == v_x % 10
        tens == (v_x - ones) \div 10
    IN  IF c.i + 2 > RAM_SIZE - 1 THEN Panic(c, "IndexOutOfBounds")
        ELSE [c EXCEPT !.ram[c.i] = v_x \div 100, !.ram[c.i + 1] = tens % 256,
                       !.ram[c.i + 2] = ones]

\* The three stores happen in order; each is bounds-checked by the index
\* operation itself, so the stores before a failing one are kept.  After a
\* successful store at i the sums i + 1 and i + 2 cannot overflow u16.
op_fx33(c) ==
    LET v_x == c.registers[X(c)]
        ones == v_x % 10
        tens == ((v_x % 100) - ones) \div 10
        hundreds == (v_x - (tens * 10) - ones) \div 100
    IN  IF c.i > RAM_SIZE - 1 THEN Panic(c, "IndexOutOfBounds")
        ELSE LET c1 == [c EXCEPT !.ram[c.i] = hundreds]
             IN  IF c.i + 1 > RAM_SIZE - 1 THEN Panic(c1, "IndexOutOfBounds")
                 ELSE LET c2 == [c1 EXCEPT !.ram[c.i + 1] = tens]
                      IN  IF c.i + 2 > RAM_SIZE - 1 THEN Panic(c2, "IndexOutOfBounds")
                          ELSE [c2 EXCEPT !.ram[c.i + 2] = ones]

\* Loop of op_fx55, from register k up to register x
RECURSIVE store_regs(_, _)
store_regs(c, k) ==
    IF k > X(c) THEN c
    ELSE IF c.i + k > 65535 /\ overflow_checks THEN Panic(c, "AddOverflow")
    ELSE LET a == wrapping_add16(c.i, k)
         IN  IF a > RAM_SIZE - 1 THEN Panic(c, "IndexOutOfBounds")
             ELSE store_regs([c EXCEPT !.ram[a] = c.registers[k]], k + 1)

op_fx55(c) == store_regs(c, 0)

\* Loop of op_fx65, from register k up to register x (the index is a usize sum)
RECURSIVE load_regs(_, _)
load_regs(c, k) ==
    IF k > X(c) THEN c
    ELSE IF c.i + k > RAM_SIZE - 1 THEN Panic(c, "IndexOutOfBounds")
    ELSE load_regs([c EXCEPT !.registers[k] = c.ram[c.i + k]], k + 1)

\* Variant of op_fx65: I is left where it was
op_fx65_keeps_i(c) == load_regs(c, 0)

op_fx65(c) ==
    LET c1 == load_regs(c, 0)
    IN  IF c1.panic # "none" THEN c1
        ELSE [c1 EXCEPT !.i = wrapping_add16(c.i, X(c) + 1)]

-----------------------------------------------------------------------------
(* Fetch, decode, dispatch *)

\* The word cycle() reads at pc (defined when pc + 1 is inside the memory)
fetch(c) == BitOr(Shl(c.ram[c.pc], 8, 16), c.ram[c.pc + 1])

dispatch(c, rng) ==
    LET digit_1 == Shr(BitAnd(c.opcode, \hF000), 12)
        digit_2 == Shr(BitAnd(c.opcode, \h0F00), 8)
        digit_3 == Shr(BitAnd(c.opcode, \h00F0), 4)
        digit_4 == BitAnd(c.opcode, \h000F)
    IN  CASE digit_1 = 0 /\ digit_2 = 0 /\ digit_3 = 14 /\ digit_4 = 0 -> op_00e0(c)
          [] digit_1 = 0 /\ digit_2 = 0 /\ digit_3 = 14 /\ digit_4 = 14 -> op_00ee(c)
          [] digit_1 = 1 -> op_1nnn(c)
          [] digit_1 = 2 -> op_2nnn(c)
          [] digit_1 = 3 -> op_3xnn(c)
          [] digit_1 = 4 -> op_4xnn(c)
          [] digit_1 = 5 /\ digit_4 = 0 -> op_5xy0(c)
          [] digit_1 = 6 -> op_6xnn(c)
          [] digit_1 = 7 -> op_7xnn(c)
          [] digit_1 = 8 /\ digit_4 = 0 -> op_8xy0(c)
          [] digit_1 = 8 /\ digit_4 = 1 -> op_8xy1(c)
          [] digit_1 = 8 /\ digit_4 = 2 -> op_8xy2(c)
          [] digit_1 = 8 /\ digit_4 = 3 -> op_8xy3(c)
          [] digit_1 = 8 /\ digit_4 = 4 -> op_8xy4(c)
          [] digit_1 = 8 /\ digit_4 = 5 -> op_8xy5(c)
          [] digit_1 = 8 /\ digit_4 = 6 -> op_8xy6(c)
          [] digit_1 = 8 /\ digit_4 = 7 -> op_8xy7(c)
          [] digit_1 = 8 /\ digit_4 = 14 -> op_8xye(c)
          [] digit_1 = 9 /\ digit_4 = 0 -> op_9xy0(c)
          [] digit_1 = 10 -> op_annn(c)
          [] digit_1 = 11 -> op_bnnn(c)
          [] digit_1 = 12 -> op_cxnn(c, rng)
          [] digit_1 = 13 -> op_dxyn(c)
          [] digit_1 = 14 /\ digit_3 = 9 /\ digit_4 = 14 -> op_ex9e(c)
          [] digit_1 = 14 /\ digit_3 = 10 /\ digit_4 = 1 -> op_exa1(c)
          [] digit_1 = 15 /\ digit_3 = 0 /\ digit_4 = 7 -> op_fx07(c)
          [] digit_1 = 15 /\ digit_3 = 0 /\ digit_4 = 10 -> op_fx0a(c)
          [] digit_1 = 15 /\ digit_3 = 1 /\ digit_4 = 5 -> op_fx15(c)
          [] digit_1 = 15 /\ digit_3 = 1 /\ digit_4 = 8 -> op_fx18(c)
          [] digit_1 = 15 /\ digit_3 = 1 /\ digit_4 = 14 -> op_fx1e(c)
          [] digit_1 = 15 /\ digit_3 = 2 /\ digit_4 = 9 -> op_fx29(c)
          [] digit_1 = 15 /\ digit_3 = 3 /\ digit_4 = 3 -> op_fx33(c)
          [] digit_1 = 15 /\ digit_3 = 5 /\ digit_4 = 5 -> op_fx55(c)
          [] digit_1 = 15 /\ digit_3 = 6 /\ digit_4 = 5 -> op_fx65(c)
          [] OTHER -> Panic(c, "IllegalOP")

\* cycle reading the second byte of the word at an address wrapped into the memory
cycle_wrapped_second_byte(c, rng) ==
    IF c.pc > \hFFF THEN Panic(c, "NotSupportedAddress")
    ELSE dispatch([c EXCEPT !.opcode = BitOr(Shl(c.ram[c.pc], 8, 16), c.ram[(c.pc + 1) % RAM_SIZE]),
                            !.pc = c.pc + 2], rng)

\* cycle advancing the program counter after the handler instead of before it
cycle_advance_after(c, rng) ==
    IF c.pc > \hFFF THEN Panic(c, "NotSupportedAddress")
    ELSE IF c.pc + 1 > RAM_SIZE - 1 THEN Panic(c, "IndexOutOfBounds")
    ELSE LET r == dispatch([c EXCEPT !.opcode = fetch(c)], rng)
         IN  IF r.panic = "none" THEN [r EXCEPT !.pc = r.pc + 2] ELSE r

\* cycle reading the word from the file as load_rom stored it
cycle_fetch_loaded(c, rng) ==
    IF c.pc > \hFFF THEN Panic(c, "NotSupportedAddress")
    ELSE IF c.pc + 1 > RAM_SIZE - 1 THEN Panic(c, "IndexOutOfBounds")
    ELSE dispatch([c EXCEPT !.opcode = fetch([c EXCEPT !.ram = ram_loaded]),
                            !.pc = c.pc + 2], rng)

\* Chip8::cycle; rng is the byte random() would return
cycle(c, rng) ==
    IF c.pc > \hFFF THEN Panic(c, "NotSupportedAddress")
    ELSE IF c.pc + 1 > RAM_SIZE - 1 THEN Panic(c, "IndexOutOfBounds")
    ELSE dispatch([c EXCEPT !.opcode = fetch(c), !.pc = c.pc + 2], rng)

-----------------------------------------------------------------------------
(* Inputs: the ROM files main() may be started with, the keys the host      *)
(* writes, the bytes random() returns                                       *)

\* File contents of a program given as 16-bit big-endian instruction words
Bytes(words) ==
    LET bytes == [j \in 1..(2 * Len(words)) |->
                    IF j % 2 = 1 THEN words[(j + 1) \div 2] \div 256 ELSE words[j \div 2] % 256]
    IN  SubSeq(bytes, 1, 2 * Len(words))

\* A file that fills the memory up to 0xFFF: `head` at 0x200, `tail` at the
\* end, zero in between
LongRom(head, tail) ==
    LET h == Bytes(head)
        t == Bytes(tail)
        len == RAM_SIZE - START_ADDR
        bytes == [j \in 1..len |->
                    IF j <= Len(h) THEN h[j]
                    ELSE IF j > len - Len(t) THEN t[j - (len - Len(t))]
                    ELSE 0]
    IN  SubSeq(bytes, 1, len)

\* LD V5,KEY then LD V1,1; LD V0,3 then LD V0,KEY
KeyWaitRoms == { Bytes(<<\hF50A, \h6101>>), Bytes(<<\h6003, \hF00A>>) }

\* Waits in a loop: LD V5,KEY then JP 0x200; LD V0,KEY then LD V5,KEY then
\* JP 0x200
KeyLoopRoms == { Bytes(<<\hF50A, \h1200>>), Bytes(<<\hF00A, \hF50A, \h1200>>) }

\* The programs of the host loop that runs for ever
LiveRoms == KeyWaitRoms \cup KeyLoopRoms

\* Words that match no dispatch pattern, after two instructions that set state
IllegalWords == { \h5001, \h8008, \h0000, \hE000, \hF000, \h00E1, \h9001, \hE19F, \hF165 + 1 }

IllegalRoms == { Bytes(<<\h6A07, \hA123, w>>) : w \in IllegalWords }

\* Memory instructions whose addresses leave the memory, and the same inside
MemoryRoms ==
    { Bytes(<<\h60EA, \hAFFE, \hF033>>),
      Bytes(<<\h60EA, \hAFFF, \hF033>>),
      Bytes(<<\h60EA, \hA300, \hF033>>),
      Bytes(<<\h6011, \h6122, \h6233, \hAFFE, \hF255>>),
      Bytes(<<\h6011, \h6122, \h6233, \hA300, \hF255, \h6000, \h6100, \h6200, \hF265>>),
      Bytes(<<\h6011, \h6122, \hA04F, \hF265>>),
      LongRom(<<\h6011, \h6122, \h6233, \hAFFE, \hF265>>, <<\h5566>>),
      LongRom(<<\h603C, \h611E, \hAFFE, \hD015>>, <<\hFF81>>),
      LongRom(<<\h603C, \h611E, \hAFFD, \hD013, \hD013>>, <<\hFF, \hFF81>>),
      Bytes(<<\h60FF, \hAFFF, \hF01E, \hF055>>) }

\* Programs that drive the program counter to the end of the memory
FetchRoms ==
    { Bytes(<<\h1FFF>>),
      Bytes(<<\h60FF, \hBFFF>>),
      Bytes(<<\h6002, \hBFFD>>),
      LongRom(<<\h1FFE>>, <<\h3000>>),
      LongRom(<<\h1FFE>>, <<\h6000>>),
      LongRom(<<\h1FFC>>, <<\h4000, \h6001>>) }

\* Calls and returns: endless recursion, a return with nothing to return to,
\* two subroutines one calling the other, and a recursion 16 deep that unwinds
StackRoms ==
    { Bytes(<<\h2200>>),
      Bytes(<<\h00EE>>),
      Bytes(<<\h2206, \h220A, \h1FFF, \h220A, \h00EE, \h00EE>>),
      Bytes(<<\h7001, \h4011, \h00EE, \h2200, \h00EE>>) }

\* One of every kind of instruction after a common prefix
\* (V0 = 5, V1 = 5, V2 = 0xFF, I = 0x300)
SampleWords ==
    { \h00E0, \h1300, \h2300, \h3005, \h3006, \h4005, \h4006, \h5010, \h5020,
      \h6377, \h7001, \h7201, \h8120, \h8121, \h8122, \h8123, \h8124, \h8125,
      \h8126, \h8127, \h812E, \h9010, \h9020, \hA123, \hB300, \hC2FF, \hD015,
      \hE09E, \hE0A1, \hF007, \hF50A, \hF015, \hF018, \hF21E, \hF029, \hF033,
      \hF155, \hF165 }

SampleRoms == { Bytes(<<\h6005, \h6105, \h62FF, \hA300, w>>) : w \in SampleWords }

\* Key skips on a register that holds no key number
KeySkipRoms == { Bytes(<<\h6010, \hE09E>>), Bytes(<<\h61FF, \hE1A1>>) }

\* Values loaded into the timers
TimerBytes == { 0, 1, 2, 255 }

\* LD V0,v; LD DT,V0; LD V1,DT; LD V2,3; LD ST,V2; LD V1,DT
TimerRoms ==
    { Bytes(<<\h6000 + v, \hF015, \hF107, \h6203, \hF218, \hF107>>) : v \in TimerBytes }

\* LD V3,0x3E; LD I,glyph "2"; DRW V3,V3,5; CLS; LD V1,1
DisplayRoms == { Bytes(<<\h633E, \hA00A, \hD335, \h00E0, \h6101>>) }

\* An empty file, and files one and two bytes longer than the room from
\* START_ADDR to the end of the memory
SizeRoms ==
    { << >>,
      LongRom(<<\h1200>>, <<\hFF81>>) \o <<\h07>>,
      LongRom(<<\h1200>>, <<\hFF81>>) \o <<\h07, \h08>> }

\* Programs that store into themselves and into the font:
\* LD V0,0x63; LD V1,0x42; LD I,0x208; LD [I],V1; LD V2,0x99 (at 0x208);
\* LD V0,234; LD I,0x207; LD B,V0; LD V3,0x99 (at 0x206); LD V4,0x55 (at 0x208);
\* LD V0,234; LD I,0x04E; LD B,V0
SelfWriteRoms ==
    { Bytes(<<\h6063, \h6142, \hA208, \hF155, \h6299>>),
      Bytes(<<\h60EA, \hA207, \hF033, \h6399, \h6455>>),
      Bytes(<<\h60EA, \hA04E, \hF033>>) }

Roms ==
    KeyWaitRoms \cup IllegalRoms \cup MemoryRoms \cup FetchRoms \cup StackRoms \cup SampleRoms
        \cup KeySkipRoms \cup TimerRoms \cup DisplayRoms \cup SizeRoms \cup SelfWriteRoms

\* Operand pairs of the arithmetic programs: carry and none, borrow and none,
\* equal operands, the extremes
AluPairs ==
    { <<255, 1>>, <<1, 1>>, <<5, 3>>, <<3, 5>>, <<128, 128>>, <<0, 0>>, <<1, 128>>, <<255, 255>> }

\* LD Vx,a then LD Vy,b then the instruction 8xyk
AluCase(x, y, a, b, k) ==
    <<\h6000 + 256 * x + a, \h6000 + 256 * y + b, \h8000 + 256 * x + 16 * y + k>>

\* ADD Vx,Vy then SUB Vx,Vy then SUBN Vx,Vy, each on freshly loaded operands,
\* for every x and y
AluRoms ==
    { Bytes(AluCase(x, y, p[1], p[2], 4) \o AluCase(x, y, p[1], p[2], 5)
                \o AluCase(x, y, p[1], p[2], 7)) :
        x \in 0..15, y \in 0..15, p \in AluPairs }

\* Values shifted by the shift programs
ShiftBytes == { 0, 1, 2, \h55, \h7F, \h80, \h81, \hFF }

\* LD Vy,0x3C then LD Vx,v then SHR Vx,Vy, and the same with SHL, for every x and y
ShiftRoms ==
    { Bytes(<<\h603C + 256 * y, \h6000 + 256 * x + v, \h8006 + 256 * x + 16 * y,
              \h603C + 256 * y, \h6000 + 256 * x + v, \h800E + 256 * x + 16 * y>>) :
        x \in 0..15, y \in 0..15, v \in ShiftBytes }

\* LD Vk,16k+1 for every register, and LD Vk,255-k for every register
LoadAll ==
    << \h6001, \h6111, \h6221, \h6331,
       \h6441, \h6551, \h6661, \h6771,
       \h6881, \h6991, \h6AA1, \h6BB1,
       \h6CC1, \h6DD1, \h6EE1, \h6FF1 >>

LoadOthers ==
    << \h60FF, \h61FE, \h62FD, \h63FC,
       \h64FB, \h65FA, \h66F9, \h67F8,
       \h68F7, \h69F6, \h6AF5, \h6BF4,
       \h6CF3, \h6DF2, \h6EF1, \h6FF0 >>

\* Where the block programs store for register x: free memory, the fonts, the
\* last x + 1 bytes of the memory
BlockAddrs(x) == { \h300, \h000, \hFFF - x }

\* All registers loaded; LD I,addr; LD [I],Vx; LD Vx,[I]; all registers loaded
\* with other values; LD I,addr; LD Vx,[I]
BlockRoms ==
    { Bytes(LoadAll \o <<\hA000 + addr, \hF055 + 256 * x, \hF065 + 256 * x>>
                \o LoadOthers \o <<\hA000 + addr, \hF065 + 256 * x>>) :
        x \in 0..15, addr \in UNION { BlockAddrs(y) : y \in 0..15 } }

\* Where the BCD programs store, with the register they convert
BcdCases == { <<0, \h300>>, <<7, \hFFD>>, <<15, \h000>> }

\* LD Vx,v; LD I,addr; LD B,Vx for every 8-bit v
BcdRoms ==
    { Bytes(<<\h6000 + 256 * xa[1] + v, \hA000 + xa[2], \hF033 + 256 * xa[1]>>) :
        v \in 0..255, xa \in BcdCases }

\* The programs of the memory instructions
MemRoms == BlockRoms \cup BcdRoms

\* Coordinates, sprite heights, sprite addresses (a font glyph, the program
\* itself, the last 15 bytes of the memory) and register pairs of the draw programs
DrawXs == { 0, 60, 63, 200 }
DrawYs == { 0, 30, 31, 63, 77 }
DrawHeights == { 0, 1, 5, 15 }
DrawAddrs == { \h00A, \h200, \hFF1 }
DrawRegs == { <<0, 1>>, <<1, 1>>, <<2, 15>>, <<15, 3>> }

\* LD Vx,vx; LD Vy,vy; LD I,addr; DRW Vx,Vy,n; ADD Vx,2; DRW Vx,Vy,n; DRW Vx,Vy,n
DrawRoms ==
    { Bytes(<<\h6000 + 256 * r[1] + vx, \h6000 + 256 * r[2] + vy, \hA000 + addr,
              \hD000 + 256 * r[1] + 16 * r[2] + n, \h7002 + 256 * r[1],
              \hD000 + 256 * r[1] + 16 * r[2] + n, \hD000 + 256 * r[1] + 16 * r[2] + n>>) :
        r \in DrawRegs, vx \in DrawXs, vy \in DrawYs, n \in DrawHeights, addr \in DrawAddrs }

\* Keys the host presses and releases (match_key maps to 0..15)
HostKeys == { 0, 5 }

\* Bytes returned by random()
RandomBytes == { \h00, \h5A, \hFF }

-----------------------------------------------------------------------------
(* Actions *)

Set(c) ==
    /\ ram' = c.ram
    /\ registers' = c.registers
    /\ stack' = c.stack
    /\ video' = c.video
    /\ keypad' = c.keypad
    /\ sp' = c.sp
    /\ pc' = c.pc
    /\ i' = c.i
    /\ st' = c.st
    /\ dt' = c.dt
    /\ opcode' = c.opcode
    /\ panic' = c.panic

\* let mut chip8 = Chip8::new(), in a build with or without overflow checks
Init ==
    /\ ram = new.ram
    /\ registers = new.registers
    /\ stack = new.stack
    /\ video = new.video
    /\ keypad = new.keypad
    /\ sp = new.sp
    /\ pc = new.pc
    /\ i = new.i
    /\ st = new.st
    /\ dt = new.dt
    /\ opcode = new.opcode
    /\ panic = new.panic
    /\ host = "new"
    /\ overflow_checks \in BOOLEAN
    /\ cycles = 0
    /\ ticks = 0
    /\ callers = << >>
    /\ rom = << >>
    /\ dt_loaded = [v |-> 0, k |-> 0]
    /\ written = {}
    /\ ram_loaded = new.ram

\* chip8.load_rom(&args[1])
LoadRom(roms) ==
    /\ host = "new"
    /\ panic = "none"
    /\ \E contents \in roms :
          /\ Set(load_rom(Chip, contents))
          /\ rom' = contents
          /\ ram_loaded' = load_rom(Chip, contents).ram
    /\ host' = "loaded"
    /\ UNCHANGED <<overflow_checks, cycles, ticks, callers, dt_loaded, written>>

IsCall(w) == Shr(BitAnd(w, \hF000), 12) = 2
IsRet(w) == w = \h00EE
IsLoadDt(w) == Shr(BitAnd(w, \hF000), 12) = 15 /\ BitAnd(w, \h00FF) = \h15

\* The addresses inside the memory that op_fx33 (ram[I], ram[I+1], ram[I+2])
\* and op_fx55 (ram[I] .. ram[I+x]) store to when the word w runs with I = at
StoredTo(w, at) ==
    IF Shr(BitAnd(w, \hF000), 12) = 15 /\ BitAnd(w, \h00FF) = \h33
    THEN (at..(at + 2)) \cap (0..(RAM_SIZE - 1))
    ELSE IF Shr(BitAnd(w, \hF000), 12) = 15 /\ BitAnd(w, \h00FF) = \h55
    THEN (at..(at + Shr(BitAnd(w, \h0F00), 8))) \cap (0..(RAM_SIZE - 1))
    ELSE {}

\* What random() may return in the next cycle(): only op_cxnn calls it
RandomDraws ==
    IF pc + 1 <= RAM_SIZE - 1 /\ Shr(BitAnd(fetch(Chip), \hF000), 12) = 12
    THEN RandomBytes ELSE {0}

\* One call of cycle() and what it adds to the histories
CycleCall ==
    /\ host = "loaded"
    /\ panic = "none"
    /\ \E rng \in RandomDraws :
          LET c == cycle(Chip, rng)
          IN  /\ Set(c)
              /\ callers' =
                    IF c.panic # "none" THEN callers
                    ELSE IF IsCall(c.opcode) THEN Append(callers, <<pc, sp>>)
                    ELSE IF IsRet(c.opcode) /\ Len(callers) > 0 THEN SubSeq(callers, 1, Len(callers) - 1)
                    ELSE callers
              /\ dt_loaded' =
                    IF c.panic = "none" /\ IsLoadDt(c.opcode)
                    THEN [v |-> registers[Shr(BitAnd(c.opcode, \h0F00), 8)], k |-> 0]
                    ELSE dt_loaded
              /\ written' =
                    IF pc + 1 <= RAM_SIZE - 1 THEN written \cup StoredTo(c.opcode, i)
                    ELSE written
    /\ UNCHANGED <<host, overflow_checks, ticks, rom, ram_loaded>>

\* chip8.cycle(), counted
Cycle ==
    /\ cycles < MaxCycles
    /\ CycleCall
    /\ cycles' = cycles + 1

\* chip8.tick_timers()
TickTimers ==
    /\ host = "loaded"
    /\ panic = "none"
    /\ ticks < MaxTicks
    /\ Set(tick_timers(Chip))
    /\ ticks' = ticks + 1
    /\ dt_loaded' = [dt_loaded EXCEPT !.k = @ + 1]
    /\ UNCHANGED <<host, overflow_checks, cycles, callers, rom, written, ram_loaded>>

\* chip8.set_key_value(k, 1) on KeyDown, chip8.set_key_value(k, 0) on KeyUp
SetKeyValue ==
    /\ host = "loaded"
    /\ panic = "none"
    /\ \E key \in HostKeys, value \in {0, 1} : Set(set_key_value(Chip, key, value))
    /\ UNCHANGED <<host, overflow_checks, cycles, ticks, callers, rom, dt_loaded, written,
                   ram_loaded>>

Next == LoadRom(Roms) \/ Cycle \/ TickTimers \/ SetKeyValue

Spec == Init /\ [][Next]_vars

\* chip8.cycle() of a host loop that is not cut off after MaxCycles calls
Step == CycleCall /\ UNCHANGED cycles

\* The 'running loop as long as the window is open: it calls cycle() again and
\* again, so a call that can change the machine is eventually made
NextLive == LoadRom(LiveRoms) \/ Step \/ TickTimers \/ SetKeyValue

SpecLive == Init /\ [][NextLive]_vars /\ WF_vars(Step)

\* The machine started on one of the arithmetic programs
NextAlu == LoadRom(AluRoms) \/ Cycle

SpecAlu == Init /\ [][NextAlu]_vars

\* The machine started on one of the shift programs
NextShift == LoadRom(ShiftRoms) \/ Cycle

SpecShift == Init /\ [][NextShift]_vars

\* The machine started on one of the draw programs
NextDraw == LoadRom(DrawRoms) \/ Cycle

SpecDraw == Init /\ [][NextDraw]_vars

\* The machine started on one of the block or BCD programs
NextMem == LoadRom(MemRoms) \/ Cycle

SpecMem == Init /\ [][NextMem]_vars

-----------------------------------------------------------------------------
(* Vocabulary of the properties *)

\* A step of the behaviour that is one call of cycle()
CycleStep == host = "loaded" /\ panic = "none" /\ cycles' = cycles + 1

\* cycle() can read both bytes of the instruction word
Fetchable == pc + 1 <= \hFFF

\* The nibbles of a word
D1(w) == w \div 4096
D2(w) == (w \div 256) % 16
D3(w) == (w \div 16) % 16
D4(w) == w % 16

\* The 35 instruction patterns of the instruction set
Recognized(w) ==
    \/ w \in {\h00E0, \h00EE}
    \/ D1(w) \in {1, 2, 3, 4, 6, 7, 10, 11, 12, 13}
    \/ D1(w) \in {5, 9} /\ D4(w) = 0
    \/ D1(w) = 8 /\ D4(w) \in {0, 1, 2, 3, 4, 5, 6, 7, 14}
    \/ D1(w) = 14 /\ <<D3(w), D4(w)>> \in {<<9, 14>>, <<10, 1>>}
    \/ D1(w) = 15 /\ <<D3(w), D4(w)>> \in
          {<<0, 7>>, <<0, 10>>, <<1, 5>>, <<1, 8>>, <<1, 14>>, <<2, 9>>, <<3, 3>>, <<5, 5>>, <<6, 5>>}

\* A panic of the fetch or of an indexing operation
AddressFault == {"NotSupportedAddress", "IndexOutOfBounds"}

-----------------------------------------------------------------------------
(* C1 *)

\* C1: an execution step that executes FX0A while keypad[x] is unpressed ends
\* with the program counter and every register (and the memory, so the same
\* word is fetched again) as before the step; a step that executes it while
\* keypad[x] is pressed ends with the program counter two higher and Vx = x.
C1_KeyWait ==
    [][CycleStep /\ Fetchable =>
        \A x \in 0..15 :
            fetch(Chip) = \hF00A + 256 * x =>
                /\ panic' = "none"
                /\ (keypad[x] = 0) => (pc' = pc /\ registers' = registers /\ ram' = ram)
                /\ (keypad[x] > 0) =>
                      (pc' = pc + 2 /\ registers' = [registers EXCEPT ![x] = x])]_vars

\* The wait on key 5 polled at least once without the key and then passed
C1_Witness ==
    cycles >= 2 /\ opcode = \hF50A /\ pc = \h202 /\ registers[5] = 5 /\ panic = "none"

-----------------------------------------------------------------------------
(* C2 *)

\* C2: an execution step whose fetched word matches none of the 35 patterns
\* ends in the illegal-opcode fault with registers, memory, stack, stack
\* pointer, program counter, index register, timers, display and keypad as
\* before the step.
C2_IllegalOpcodeNoChange ==
    [][CycleStep /\ Fetchable /\ ~Recognized(fetch(Chip)) =>
        /\ panic' = "IllegalOP"
        /\ UNCHANGED <<registers, ram, stack, sp, pc, i, st, dt, video, keypad>>]_vars

-----------------------------------------------------------------------------
(* C3 *)

\* The instruction w, executed with index register i, touches an address
\* above 0xFFF
TouchesOutside(w) ==
    \/ D1(w) = 13 /\ D4(w) > 0 /\ i + D4(w) - 1 > \hFFF
    \/ D1(w) = 15 /\ D3(w) = 3 /\ D4(w) = 3 /\ i + 2 > \hFFF
    \/ D1(w) = 15 /\ D3(w) = 5 /\ D4(w) = 5 /\ i + D2(w) > \hFFF
    \/ D1(w) = 15 /\ D3(w) = 6 /\ D4(w) = 5 /\ i + D2(w) > \hFFF

\* C3: a DRW, BCD, block store or block load that would touch an address
\* outside [0,0xFFF] ends in an address fault with memory, all registers, I
\* and the display as before the instruction.
C3_FaultsNotPartiallyApplied ==
    [][CycleStep /\ Fetchable /\ TouchesOutside(fetch(Chip)) =>
        /\ panic' \in AddressFault
        /\ UNCHANGED <<ram, registers, i, video>>]_vars

-----------------------------------------------------------------------------
(* C4 *)

\* C4: an execution step started with the program counter at 0xFFF or above
\* fails with an address fault, executes no instruction and changes no state.
C4_FetchOutOfRange ==
    [][CycleStep /\ pc >= \hFFF =>
        /\ panic' \in AddressFault
        /\ UNCHANGED <<ram, registers, stack, video, keypad, sp, pc, i, st, dt, opcode>>]_vars

\* The fetch at 0xFFF, reached by JMP 0xFFF, has failed on its second byte
C4_Witness == panic = "IndexOutOfBounds" /\ pc = \hFFF /\ opcode = \h1FFF

-----------------------------------------------------------------------------
(* C5 *)

-----------------------------------------------------------------------------
(* C6 *)

\* C6: RET executed with the stack pointer at 0 faults, the stack pointer
\* keeps its value and the program counter is not loaded from the stack.
C6_RetUnderflow ==
    [][CycleStep /\ Fetchable /\ IsRet(fetch(Chip)) /\ sp = 0 =>
        /\ panic' # "none"
        /\ sp' = 0
        /\ pc' \in {pc, pc + 2}]_vars

-----------------------------------------------------------------------------
(* C7 *)

\* C7: a CALL nnn with room on the stack ends with pc = nnn and the stack
\* pointer one higher; the RET that matches a CALL fetched at a ends with
\* pc = a + 2 and the stack pointer as before that CALL; JMP nnn ends with
\* pc = nnn and changes neither the stack nor the stack pointer.
C7_CallRetLifo ==
    [][CycleStep /\ Fetchable =>
        LET w == fetch(Chip)
            top == callers[Len(callers)]
        IN  /\ (IsCall(w) /\ sp < 16) =>
                  (panic' = "none" /\ pc' = w % 4096 /\ sp' = sp + 1)
            /\ (IsRet(w) /\ Len(callers) > 0) =>
                  (panic' = "none" /\ pc' = top[1] + 2 /\ sp' = top[2])
            /\ (D1(w) = 1) =>
                  (panic' = "none" /\ pc' = w % 4096 /\ stack' = stack /\ sp' = sp)]_vars

\* The recursion that went 16 deep has returned from its outermost call
C7_Witness ==
    /\ panic = "none" /\ opcode = \h00EE /\ registers[0] = 17
    /\ sp = 0 /\ pc = \h208 /\ callers = << >>

-----------------------------------------------------------------------------
(* C8 *)

\* The skip instruction w is taken in the current state
SkipTaken(w) ==
    \/ D1(w) = 3 /\ registers[D2(w)] = w % 256
    \/ D1(w) = 4 /\ registers[D2(w)] # w % 256
    \/ D1(w) = 5 /\ registers[D2(w)] = registers[D3(w)]
    \/ D1(w) = 9 /\ registers[D2(w)] # registers[D3(w)]
    \/ D1(w) = 14 /\ D4(w) = 14 /\ keypad[registers[D2(w)]] > 0
    \/ D1(w) = 14 /\ D4(w) = 1 /\ keypad[registers[D2(w)]] = 0

IsSkip(w) == D1(w) \in {3, 4, 5, 9, 14}

IsKeyWait(w) == D1(w) = 15 /\ D3(w) = 0 /\ D4(w) = 10

\* C8: after a step that decoded and executed its instruction the program
\* counter is fetch pc + 2 for every instruction that is no jump, call,
\* return, skip or key-wait, fetch pc + 4 for a taken skip, fetch pc + 2 for
\* a skip not taken, and the return address pushed by CALL is fetch pc + 2.
C8_PcAdvance ==
    [][CycleStep /\ Fetchable /\ Recognized(fetch(Chip)) /\ panic' = "none" =>
        LET w == fetch(Chip)
        IN  /\ (D1(w) \notin {1, 2, 11} /\ ~IsRet(w) /\ ~IsSkip(w) /\ ~IsKeyWait(w)) =>
                  pc' = pc + 2
            /\ IsSkip(w) => pc' = IF SkipTaken(w) THEN pc + 4 ELSE pc + 2
            /\ IsCall(w) => stack'[sp] = pc + 2]_vars

\* SE V0,5 fetched at 0x208 with V0 = 5 has skipped to 0x20C
C8_Witness == panic = "none" /\ opcode = \h3005 /\ registers[0] = 5 /\ pc = \h20C

-----------------------------------------------------------------------------
(* C9 *)

\* The carry / no-borrow flag of the arithmetic instruction w on the
\* operands in the current state
AluFlag(w) ==
    LET vx == registers[D2(w)]
        vy == registers[D3(w)]
    IN  CASE D4(w) = 4 -> IF vx + vy > 255 THEN 1 ELSE 0
          [] D4(w) = 5 -> IF vx >= vy THEN 1 ELSE 0
          [] D4(w) = 7 -> IF vy >= vx THEN 1 ELSE 0

\* The 8-bit result of the arithmetic instruction w
AluResult(w) ==
    LET vx == registers[D2(w)]
        vy == registers[D3(w)]
    IN  CASE D4(w) = 4 -> (vx + vy) % 256
          [] D4(w) = 5 -> (vx - vy) % 256
          [] D4(w) = 7 -> (vy - vx) % 256

IsAlu(w) == D1(w) = 8 /\ D4(w) \in {4, 5, 7}

\* C9: ADD, SUB and SUBN Vx,Vy with x in 0..14 and any y (y = F included:
\* its value before the instruction is the operand) leave the 8-bit result
\* in Vx, the carry / no-borrow flag in VF and every other register as it was.
C9_AluResultAndFlag ==
    [][CycleStep /\ Fetchable /\ IsAlu(fetch(Chip)) /\ D2(fetch(Chip)) <= 14 =>
        LET w == fetch(Chip)
        IN  /\ panic' = "none"
            /\ registers' = [r \in 0..15 |->
                    IF r = D2(w) THEN AluResult(w)
                    ELSE IF r = 15 THEN AluFlag(w)
                    ELSE registers[r]]]_vars

\* SUB V3,VF with V3 = 1 and VF = 128 has borrowed: V3 = 129, VF = 0
C9_Witness ==
    /\ panic = "none" /\ opcode = \h83F5 /\ pc = \h20C
    /\ registers[3] = 129 /\ registers[15] = 0

-----------------------------------------------------------------------------
(* C10 *)

\* C10: after ADD, SUB or SUBN VF,Vy (the destination is VF) VF holds the
\* carry / no-borrow flag of the operands before the instruction.
C10_FlagWinsOnVF ==
    [][CycleStep /\ Fetchable /\ IsAlu(fetch(Chip)) /\ D2(fetch(Chip)) = 15 =>
        registers'[15] = AluFlag(fetch(Chip))]_vars

-----------------------------------------------------------------------------
(* C11 *)

IsShr(w) == D1(w) = 8 /\ D4(w) = 6

IsShl(w) == D1(w) = 8 /\ D4(w) = 14

\* C11: for x in 0..14 and any y, SHR ends with VF = v mod 2 and Vx = v div 2,
\* SHL ends with VF = 1 if bit 7 of v is set and 0 otherwise and
\* Vx = (2 * v) mod 256, where v is Vx before the instruction; every other
\* register, Vy included, is as before, whatever Vy holds.
C11_ShiftFlags ==
    [][CycleStep /\ Fetchable /\ (IsShr(fetch(Chip)) \/ IsShl(fetch(Chip)))
            /\ D2(fetch(Chip)) <= 14 =>
        LET w == fetch(Chip)
            v == registers[D2(w)]
        IN  /\ panic' = "none"
            /\ registers' = [r \in 0..15 |->
                    IF r = D2(w) THEN (IF IsShr(w) THEN v \div 2 ELSE (2 * v) % 256)
                    ELSE IF r = 15
                         THEN (IF IsShr(w) THEN v % 2 ELSE IF v >= 128 THEN 1 ELSE 0)
                         ELSE registers[r]]]_vars

-----------------------------------------------------------------------------
(* C12 *)

IsDrw(w) == D1(w) = 13

\* The sprite of DRW w lies inside the memory
SpriteInside(w) == D4(w) = 0 \/ i + D4(w) - 1 <= \hFFF

\* The set bits of the sprite of DRW w, as <<row, column>> with column 0 the
\* most significant bit
SpriteBits(w) ==
    { b \in (0..(D4(w) - 1)) \X (0..7) : (ram[i + b[1]] \div (2 ^ (7 - b[2]))) % 2 = 1 }

\* The display cell of sprite bit b of DRW w
CellOf(w, b) ==
    (((registers[D3(w)] % 32) + b[1]) % 32) * 64 + (((registers[D2(w)] % 64) + b[2]) % 64)

\* C12: a DRW whose sprite lies inside the memory toggles, for every set
\* sprite bit (row r, column c), the cell at row ((Vy mod 32) + r) mod 32 and
\* column ((Vx mod 64) + c) mod 64, once, and leaves every other cell as it was.
C12_DrawPlacement ==
    [][CycleStep /\ Fetchable /\ IsDrw(fetch(Chip)) /\ SpriteInside(fetch(Chip)) =>
        LET w == fetch(Chip)
            toggled == { CellOf(w, b) : b \in SpriteBits(w) }
        IN  /\ panic' = "none"
            /\ Cardinality(toggled) = Cardinality(SpriteBits(w))
            /\ video' = [p \in 0..2047 |-> IF p \in toggled THEN ~video[p] ELSE video[p]]]_vars

\* The 8x1 sprite 0xF0 drawn at Vx = 63, Vy = 31 lit column 63 and, wrapped,
\* columns 0..2 of row 31 (the draw from an empty display, before ADD Vx,2)
C12_Witness ==
    /\ panic = "none" /\ opcode = \hD011 /\ pc = \h208 /\ i = \h00A
    /\ registers[0] = 63 /\ registers[1] = 31
    /\ \A p \in 0..2047 : video[p] <=> p \in {31 * 64 + 63, 31 * 64, 31 * 64 + 1, 31 * 64 + 2}

-----------------------------------------------------------------------------
(* C13 *)

\* C13: a DRW ends with VF = 1 if some cell went from true to false during
\* it and VF = 0 otherwise; and where a DRW whose coordinate registers are not
\* VF is followed by the same DRW, the two executed in succession leave the
\* display as it was before the first, with VF = 1 after the second when the
\* sprite has a set bit.
C13_CollisionAndInvolution ==
    /\ [][CycleStep /\ Fetchable /\ IsDrw(fetch(Chip)) /\ SpriteInside(fetch(Chip)) =>
            registers'[15] = IF \E p \in 0..2047 : video[p] /\ ~video'[p] THEN 1 ELSE 0]_vars
    /\ [](  (/\ host = "loaded" /\ panic = "none" /\ pc + 3 <= \hFFF
             /\ IsDrw(fetch(Chip)) /\ SpriteInside(fetch(Chip))
             /\ D2(fetch(Chip)) # 15 /\ D3(fetch(Chip)) # 15
             /\ fetch([Chip EXCEPT !.pc = pc + 2]) = fetch(Chip))
          => LET once == cycle(Chip, 0)
                 twice == cycle(once, 0)
             IN  /\ twice.panic = "none"
                 /\ twice.video = video
                 /\ (SpriteBits(fetch(Chip)) # {}) => twice.registers[15] = 1 )

\* Glyph "2" drawn twice at Vx = 2, Vy = 30 on top of the same glyph at
\* Vx = 0: the display is again what the first draw left, and VF = 1
C13_Witness ==
    /\ panic = "none" /\ opcode = \hD015 /\ pc = \h20E /\ i = \h00A
    /\ registers[0] = 2 /\ registers[1] = 30 /\ registers[15] = 1
    /\ video[30 * 64] /\ video[30 * 64 + 3] /\ ~video[30 * 64 + 5]
    /\ video = cycle([Chip EXCEPT !.pc = \h206, !.registers[0] = 0,
                        !.video = [p \in 0..2047 |-> FALSE]], 0).video

-----------------------------------------------------------------------------
(* C14 *)

IsSkp(w) == D1(w) = 14 /\ BitAnd(w, \h00FF) = \h9E

IsSknp(w) == D1(w) = 14 /\ BitAnd(w, \h00FF) = \hA1

\* C14: SKP Vx and SKNP Vx complete for every value of Vx, 16 and above
\* included, and skip according to a keypad entry in 0..15: SKP skips iff that
\* key is pressed, SKNP iff it is not.
C14_KeySkipCompletes ==
    [][CycleStep /\ Fetchable /\ (IsSkp(fetch(Chip)) \/ IsSknp(fetch(Chip))) =>
        /\ panic' = "none"
        /\ \E k \in 0..15 :
              pc' = pc + 2 + (IF (keypad[k] > 0) = IsSkp(fetch(Chip)) THEN 2 ELSE 0)]_vars

-----------------------------------------------------------------------------
(* C15 *)

IsStore(w) == D1(w) = 15 /\ BitAnd(w, \h00FF) = \h55

IsLoad(w) == D1(w) = 15 /\ BitAnd(w, \h00FF) = \h65

\* C15: with I + x <= 0xFFF, LD [I],Vx writes V0..Vx to memory[I..I+x] and
\* leaves I and the registers; LD Vx,[I] copies memory[I..I+x] into V0..Vx,
\* leaves the registers above x and ends with I advanced by x + 1 (mod 65536);
\* and the load applied to what the store left, from the same I and with the
\* registers cleared in between, gives back V0..Vx.
C15_BlockStoreLoad ==
    /\ [][CycleStep /\ Fetchable /\ IsStore(fetch(Chip)) /\ i + D2(fetch(Chip)) <= \hFFF =>
            LET x == D2(fetch(Chip))
            IN  /\ panic' = "none"
                /\ ram' = [a \in 0..(RAM_SIZE - 1) |->
                             IF a >= i /\ a <= i + x THEN registers[a - i] ELSE ram[a]]
                /\ i' = i
                /\ registers' = registers]_vars
    /\ [][CycleStep /\ Fetchable /\ IsLoad(fetch(Chip)) /\ i + D2(fetch(Chip)) <= \hFFF =>
            LET x == D2(fetch(Chip))
            IN  /\ panic' = "none"
                /\ registers' = [r \in 0..15 |-> IF r <= x THEN ram[i + r] ELSE registers[r]]
                /\ i' = (i + x + 1) % 65536
                /\ ram' = ram]_vars
    /\ []( (/\ host = "loaded" /\ panic = "none" /\ Fetchable
            /\ IsStore(fetch(Chip)) /\ i + D2(fetch(Chip)) <= \hFFF)
          => LET x == D2(fetch(Chip))
                 stored == cycle(Chip, 0)
                 loaded == op_fx65([stored EXCEPT !.registers = [r \in 0..15 |-> 0],
                                                  !.opcode = \hF065 + 256 * x])
             IN  /\ loaded.panic = "none"
                 /\ \A r \in 0..x : loaded.registers[r] = registers[r] )

\* The second load of the program for x = 15 at I = 0xFF0 brought back all
\* sixteen stored values over the other ones, and I went to 0x1000
C15_Witness ==
    /\ panic = "none" /\ opcode = \hFF65 /\ pc = \h200 + 2 * 37 /\ i = \h1000
    /\ \A r \in 0..15 : registers[r] = 16 * r + 1 /\ ram[\hFF0 + r] = 16 * r + 1

-----------------------------------------------------------------------------
(* C19 *)

IsBcd(w) == D1(w) = 15 /\ BitAnd(w, \h00FF) = \h33

\* C19: with I + 2 <= 0xFFF, LD B,Vx on Vx = v ends with memory[I] = v div 100,
\* memory[I+1] = (v div 10) mod 10 and memory[I+2] = v mod 10, three decimal
\* digits whose value is v, and changes no other byte, no register and not I.
C19_Bcd ==
    [][CycleStep /\ Fetchable /\ IsBcd(fetch(Chip)) /\ i + 2 <= \hFFF =>
        LET v == registers[D2(fetch(Chip))]
        IN  /\ panic' = "none"
            /\ ram' = [a \in 0..(RAM_SIZE - 1) |->
                         IF a = i THEN v \div 100
                         ELSE IF a = i + 1 THEN (v \div 10) % 10
                         ELSE IF a = i + 2 THEN v % 10
                         ELSE ram[a]]
            /\ \A a \in i..(i + 2) : ram'[a] \in 0..9
            /\ 100 * ram'[i] + 10 * ram'[i + 1] + ram'[i + 2] = v
            /\ registers' = registers
            /\ i' = i]_vars

\* 234 converted at the last three bytes of the memory
C19_Witness ==
    /\ panic = "none" /\ opcode = \hF733 /\ pc = \h206 /\ registers[7] = 234 /\ i = \hFFD
    /\ ram[\hFFD] = 2 /\ ram[\hFFE] = 3 /\ ram[\hFFF] = 4

-----------------------------------------------------------------------------
(* C16 *)

\* One call of tick_timers()
TickStep == ticks' = ticks + 1

IsLoadSt(w) == D1(w) = 15 /\ BitAnd(w, \h00FF) = \h18

IsReadDt(w) == D1(w) = 15 /\ BitAnd(w, \h00FF) = \h07

\* What the delay timer holds k ticks after LD DT loaded v
Remaining == IF dt_loaded.v > dt_loaded.k THEN dt_loaded.v - dt_loaded.k ELSE 0

-----------------------------------------------------------------------------
(* C17 *)

IsCls(w) == w = \h00E0

\* A step of the host between two calls of cycle() and tick_timers(): a key
\* state write
KeyWriteStep == host = "loaded" /\ cycles' = cycles /\ ticks' = ticks

-----------------------------------------------------------------------------
(* C18 *)

\* The call of load_rom()
LoadStep == host = "new" /\ host' = "loaded"

\* C18: the constructed machine has glyph n of the font at addresses 5n..5n+4
\* for n = 0..15, every other byte zero, the program counter at 0x200 and all
\* else zero or false; the load of a file of L <= 3584 bytes puts byte j at
\* 0x200 + j for every j < L and changes no other byte and nothing else; the
\* load of a longer file fails.
C18_NewAndLoad ==
    /\ [](host = "new" =>
            /\ \A n \in 0..15 : \A k \in 0..4 : ram[5 * n + k] = FONTS[5 * n + k + 1]
            /\ \A a \in \h50..\hFFF : ram[a] = 0
            /\ pc = \h200
            /\ \A r \in 0..15 : registers[r] = 0 /\ stack[r] = 0 /\ keypad[r] = 0
            /\ \A p \in 0..2047 : ~video[p]
            /\ sp = 0 /\ i = 0 /\ st = 0 /\ dt = 0 /\ opcode = 0
            /\ panic = "none")
    /\ [][LoadStep =>
            IF Len(rom') <= 3584
            THEN /\ panic' = "none"
                 /\ ram' = [a \in 0..\hFFF |->
                              IF a >= \h200 /\ a - \h200 < Len(rom') THEN rom'[a - \h200 + 1]
                              ELSE ram[a]]
                 /\ UNCHANGED <<registers, stack, video, keypad, sp, pc, i, st, dt, opcode>>
            ELSE panic' = "NotSupportedAddress"]_vars

\* A file of exactly 3584 bytes is loaded up to the last byte of the memory,
\* below the untouched font
C18_Witness ==
    /\ host = "loaded" /\ cycles = 0 /\ panic = "none" /\ Len(rom) = 3584
    /\ ram[\hFFF] = \h81 /\ ram[\h200] = rom[1] /\ ram[\h04F] = \h80 /\ pc = \h200

-----------------------------------------------------------------------------
(* C20 *)

\* The machine sits on LD Vx,KEY: that is the instruction the next call of
\* cycle() executes
WaitingOn(x) ==
    host = "loaded" /\ panic = "none" /\ Fetchable /\ fetch(Chip) = \hF00A + 256 * x

\* C20: under weak fairness of the execution step, if keypad[x] is eventually
\* pressed for good, the machine does not stay on LD Vx,KEY for ever; a poll
\* that finds the key unpressed ends without fault where it started, after
\* which a timer tick (while the tick bound allows one) and a key state write
\* can be taken; and a key x pressed and released again between two polls
\* leaves the next poll unsuccessful.
C20_KeyWaitLiveness ==
    /\ \A x \in 0..15 : <>[](keypad[x] > 0) => []<>(~WaitingOn(x))
    /\ [][\A x \in 0..15 :
            WaitingOn(x) /\ keypad[x] = 0 /\ ticks' = ticks /\ keypad' = keypad =>
                /\ panic' = "none" /\ host' = host
                /\ pc' = pc /\ registers' = registers /\ ram' = ram
                /\ opcode' = \hF00A + 256 * x]_vars
    /\ [](\A x \in 0..15 :
            WaitingOn(x) /\ opcode = \hF00A + 256 * x =>
                /\ ENABLED SetKeyValue
                /\ ticks < MaxTicks => ENABLED TickTimers)
    /\ [](\A x \in 0..15 :
            WaitingOn(x) /\ keypad[x] = 0 =>
                LET pressed == set_key_value(Chip, x, 1)
                    released == set_key_value(pressed, x, 0)
                    polled == cycle(released, 0)
                IN  /\ pressed.keypad[x] > 0
                    /\ polled.panic = "none" /\ polled.pc = pc
                    /\ polled.registers = registers)

\* The wait on key 0 was left, after a tick went by, and the machine is back
\* on the wait on key 5 with key 0 released again
C20_Witness ==
    /\ WaitingOn(5) /\ opcode = \hF00A /\ registers[0] = 0 /\ pc = \h202
    /\ Len(rom) = 6 /\ ticks >= 1 /\ keypad[0] = 0 /\ keypad[5] = 0

-----------------------------------------------------------------------------
(* C21 *)

\* C21: after the load, through execution steps, timer ticks and key state
\* writes, a memory byte differs from what load_rom left there only at an
\* address that a BCD or a block store was run on; an execution step changes
\* memory only at the addresses of its own BCD or block store and never the
\* keypad, a timer tick changes neither, a key state write leaves the memory;
\* and every execution step latches and executes the word that the memory
\* holds at the program counter at that moment, written bytes included.
C21_MemoryWriteFrame ==
    /\ [](host = "loaded" =>
            \/ ram = ram_loaded
            \/ \A a \in 0..\hFFF : ram[a] # ram_loaded[a] => a \in written)
    /\ [][CycleStep =>
            /\ keypad' = keypad
            /\ \/ ram' = ram
               \/ /\ Fetchable
                  /\ IsBcd(fetch(Chip)) \/ IsStore(fetch(Chip))
                  /\ \A a \in 0..\hFFF : ram'[a] # ram[a] => a \in StoredTo(fetch(Chip), i)]_vars
    /\ [][TickStep => ram' = ram /\ keypad' = keypad]_vars
    /\ [][KeyWriteStep => ram' = ram]_vars
    /\ [][CycleStep /\ Fetchable =>
            LET word == 256 * ram[pc] + ram[pc + 1]
            IN  /\ opcode' = word
                /\ \E rng \in RandomDraws :
                      LET d == dispatch([Chip EXCEPT !.opcode = word, !.pc = pc + 2], rng)
                      IN  /\ panic' = d.panic /\ pc' = d.pc /\ ram' = d.ram
                          /\ registers' = d.registers /\ i' = d.i]_vars

\* The block store put 0x63 0x42 over LD V2,0x99 at 0x208, and the step
\* there ran LD V3,0x42: V3 is loaded and V2 is not
C21_Witness ==
    /\ panic = "none" /\ pc = \h20A /\ opcode = \h6342 /\ written = {\h208, \h209}
    /\ registers[3] = \h42 /\ registers[2] = 0
    /\ ram_loaded[\h208] = \h62 /\ ram_loaded[\h209] = \h99
    /\ ram[\h208] = \h63 /\ ram[\h209] = \h42

====
